---- MODULE Spec2Model ----
(***************************************************************************)
(* The routing table of tide (src/router.rs): one path matcher per HTTP    *)
(* method, the set of registered path templates, the default-handler pass  *)
(* (add_default_handlers) and the lookup (route) with its HEAD -> GET      *)
(* fallback.                                                               *)
(*                                                                         *)
(* A path is the sequence of its '/'-separated segments ("/a/:x" is        *)
(* <<"a", ":x">>).  The per-method matcher is route_recognizer's Router;   *)
(* its code is not part of router.rs, so recognize is modelled from the    *)
(* matcher contract of the specification (section 4.1).                    *)
(***************************************************************************)
EXTENDS Integers, Sequences, FiniteSets, TLC

\* ------------------------------------------------------------------ bounds
MaxAdds == 2        \* add calls made by the caller before finalization
MaxFinalize == 2    \* add_default_handlers calls

\* --------------------------------------------------------------- constants
HTTP_METHODS == <<"GET", "POST", "PUT", "DELETE", "HEAD", "PATCH", "TRACE", "CONNECT", "OPTIONS">>

Range(s) == {s[i] : i \in DOMAIN s}

Methods == Range(HTTP_METHODS)

\* The methods the caller registers endpoints under.
CallerMethods == {"GET", "POST", "HEAD", "OPTIONS"}

\* Segment syntax of a path template: ":name" is a named parameter, "*name"
\* a wildcard, anything else a literal.
DynamicSegments == {":x", ":y"}
StarSegments == {"*w"}

IsDynamic(seg) == seg \in DynamicSegments
IsStar(seg) == seg \in StarSegments

ParamName(seg) ==
    CASE seg = ":x" -> "x"
      [] seg = ":y" -> "y"
      [] seg = "*w" -> "w"
      [] OTHER -> ""

\* The path templates the caller registers.
PathTemplates ==
    { <<"a", "b">>, <<"a", ":x">>, <<":y", "b">>, <<"*w">> }

\* The concrete request paths looked up.
ConcretePaths ==
    { <<"a">>, <<"b">>, <<"a", "a">>, <<"a", "b">>, <<"b", "a">>, <<"b", "b">> }

\* The paths the matchers are probed with: request paths, and the template
\* strings themselves (add_default_handlers probes the matchers with them).
RoutePaths == ConcretePaths \cup PathTemplates

\* ------------------------------------------------------------------- state
VARIABLES
    method_map,   \* Router.method_map: method -> matcher (absent methods are not in its domain)
    paths,        \* Router.paths
    n_adds,       \* add calls so far; the k-th call passes endpoint k
    n_finalize,   \* add_default_handlers calls so far
    selection     \* the Selection returned by the latest route call

vars == <<method_map, paths, n_adds, n_finalize, selection>>

\* ------------------------------------------------------------- endpoints
CallerEndpoint(k) == [kind |-> "caller", ep |-> k, status |-> 0, allow |-> <<>>]

DefaultEndpoint(code, allow_header) ==
    [kind |-> "default", ep |-> 0, status |-> code, allow |-> allow_header]

StatusNotFound == 404
StatusNoContent == 204
StatusMethodNotAllowed == 405

not_found_endpoint ==
    [kind |-> "not_found", ep |-> 0, status |-> StatusNotFound, allow |-> <<>>]

\* ------------------------------------------------- the path matcher (4.1)
\* A matcher is the sequence of its registrations [pattern, handler], in
\* registration order.
MethodRouter_new == <<>>

MethodRouter_add(matcher, pattern, handler) ==
    Append(matcher, [pattern |-> pattern, handler |-> handler])

RECURSIVE Matches(_, _)
Matches(pattern, path) ==
    IF pattern = <<>> THEN path = <<>>
    ELSE IF path = <<>> THEN FALSE
    ELSE IF IsStar(Head(pattern)) THEN Len(pattern) = 1
    ELSE IF IsDynamic(Head(pattern)) THEN Matches(Tail(pattern), Tail(path))
    ELSE Head(pattern) = Head(path) /\ Matches(Tail(pattern), Tail(path))

\* The parameter bindings of a match: pairs <<name, matched segments>>.
RECURSIVE Captures(_, _)
Captures(pattern, path) ==
    IF pattern = <<>> \/ path = <<>> THEN {}
    ELSE IF IsStar(Head(pattern)) THEN { <<ParamName(Head(pattern)), path>> }
    ELSE IF IsDynamic(Head(pattern))
         THEN { <<ParamName(Head(pattern)), <<Head(path)>> >> }
                  \cup Captures(Tail(pattern), Tail(path))
    ELSE Captures(Tail(pattern), Tail(path))

\* literal < parameter < wildcard
SegmentRank(seg) == IF IsStar(seg) THEN 2 ELSE IF IsDynamic(seg) THEN 1 ELSE 0

\* p is more specific than q: at the first position where the kinds of their
\* segments differ, p has the lower rank.
MoreSpecific(p, q) ==
    \E i \in 1..Len(p) :
        /\ i <= Len(q)
        /\ SegmentRank(p[i]) < SegmentRank(q[i])
        /\ \A j \in 1..(i - 1) : SegmentRank(p[j]) = SegmentRank(q[j])

NoMatch == [ok |-> FALSE, handler |-> not_found_endpoint, params |-> {}]

\* Mutant: a parameter segment is preferred to a literal one.
Recognize_PreferDynamic(matcher, path) ==
    LET cand == { i \in DOMAIN matcher : Matches(matcher[i].pattern, path) }
        best == { i \in cand :
                    \A j \in cand :
                        /\ ~MoreSpecific(matcher[i].pattern, matcher[j].pattern)
                        /\ (MoreSpecific(matcher[j].pattern, matcher[i].pattern) \/ j <= i) }
    IN  IF best = {} THEN NoMatch
        ELSE LET i == CHOOSE i \in best : TRUE
             IN  [ok |-> TRUE,
                  handler |-> matcher[i].handler,
                  params |-> Captures(matcher[i].pattern, path)]

\* The best registration matching the path: no matching registration is more
\* specific, and among equally specific ones the latest prevails.
Recognize(matcher, path) ==
    LET cand == { i \in DOMAIN matcher : Matches(matcher[i].pattern, path) }
        best == { i \in cand :
                    \A j \in cand :
                        /\ ~MoreSpecific(matcher[j].pattern, matcher[i].pattern)
                        /\ (MoreSpecific(matcher[i].pattern, matcher[j].pattern) \/ j <= i) }
    IN  IF best = {} THEN NoMatch
        ELSE LET i == CHOOSE i \in best : TRUE
             IN  [ok |-> TRUE,
                  handler |-> matcher[i].handler,
                  params |-> Captures(matcher[i].pattern, path)]

\* ------------------------------------------------------------- the router
\* Mutant: a registration creates the matcher of every standard method.
MapAdd_Eager(mm, method, path, handler) ==
    [m \in (DOMAIN mm) \cup Methods |->
        LET matcher == IF m \in DOMAIN mm THEN mm[m] ELSE MethodRouter_new
        IN  IF m = method THEN MethodRouter_add(matcher, path, handler) ELSE matcher]

\* method_map.entry(method).or_insert_with(MethodRouter::new).add(path, ep)
MapAdd(mm, method, path, handler) ==
    LET matcher == IF method \in DOMAIN mm THEN mm[method] ELSE MethodRouter_new
    IN  [m \in (DOMAIN mm) \cup {method} |->
            IF m = method THEN MethodRouter_add(matcher, path, handler) ELSE mm[m]]

\* The Allow header: the tokens of the methods of the set, joined in the
\* set's iteration order.  A HashSet iterates in an unspecified order; the
\* model lists the tokens in the order of HTTP_METHODS, and the properties
\* read a header only through AllowSet.
AllowHeader(supported) == SelectSeq(HTTP_METHODS, LAMBDA m : m \in supported)

AllowSet(endpoint) == Range(endpoint.allow)

\* Mutant: the OPTIONS matcher is not probed.
get_http_methods_with_handlers_SkipOptions(mm, path) ==
    { m \in Methods \ {"OPTIONS"} : m \in DOMAIN mm /\ Recognize(mm[m], path).ok }

get_http_methods_with_handlers(mm, path) ==
    { m \in Methods : m \in DOMAIN mm /\ Recognize(mm[m], path).ok }

add_default_options_handler(mm, path, supported) ==
    MapAdd(mm, "OPTIONS", path,
           DefaultEndpoint(StatusNoContent, AllowHeader(supported)))

add_method_not_allowed_handler(mm, path, method, supported) ==
    MapAdd(mm, method, path,
           DefaultEndpoint(StatusMethodNotAllowed, AllowHeader(supported)))

\* The loop over HTTP_METHODS of add_default_handlers, from index i on.
RECURSIVE NotAllowedLoop(_, _, _, _)

\* Mutant: GET is exempt from the 405 handlers, as HEAD is.
NotAllowedLoop_GetExempt(mm, path, supported, i) ==
    IF i > Len(HTTP_METHODS) THEN mm
    ELSE LET http_method == HTTP_METHODS[i]
             mm1 == IF http_method \notin supported /\ http_method \notin {"HEAD", "GET"}
                    THEN add_method_not_allowed_handler(mm, path, http_method, supported)
                    ELSE mm
         IN  NotAllowedLoop(mm1, path, supported, i + 1)

\* Mutant: HEAD is not exempt from the 405 handlers.
NotAllowedLoop_NoHeadExemption(mm, path, supported, i) ==
    IF i > Len(HTTP_METHODS) THEN mm
    ELSE LET http_method == HTTP_METHODS[i]
             mm1 == IF http_method \notin supported
                    THEN add_method_not_allowed_handler(mm, path, http_method, supported)
                    ELSE mm
         IN  NotAllowedLoop(mm1, path, supported, i + 1)

NotAllowedLoop(mm, path, supported, i) ==
    IF i > Len(HTTP_METHODS) THEN mm
    ELSE LET http_method == HTTP_METHODS[i]
             mm1 == IF http_method \notin supported /\ http_method # "HEAD"
                    THEN add_method_not_allowed_handler(mm, path, http_method, supported)
                    ELSE mm
         IN  NotAllowedLoop(mm1, path, supported, i + 1)

\* Mutant: OPTIONS joins the supported set before the OPTIONS handler is built.
DefaultHandlersForPath_OptionsFirst(mm, path) ==
    LET found == get_http_methods_with_handlers(mm, path)
        supported == found \cup {"OPTIONS"}
        mm1 == IF "OPTIONS" \notin found
               THEN add_default_options_handler(mm, path, supported)
               ELSE mm
    IN  NotAllowedLoop(mm1, path, supported, 1)

\* Mutant: the OPTIONS handler is added whether or not OPTIONS is handled.
DefaultHandlersForPath_AlwaysOptions(mm, path) ==
    LET found == get_http_methods_with_handlers(mm, path)
        mm1 == add_default_options_handler(mm, path, found)
        supported == found \cup {"OPTIONS"}
    IN  NotAllowedLoop(mm1, path, supported, 1)

\* One iteration of the loop over the paths of add_default_handlers.
DefaultHandlersForPath(mm, path) ==
    LET found == get_http_methods_with_handlers(mm, path)
        mm1 == IF "OPTIONS" \notin found
               THEN add_default_options_handler(mm, path, found)
               ELSE mm
        supported == found \cup {"OPTIONS"}
    IN  NotAllowedLoop(mm1, path, supported, 1)

\* add_default_handlers visiting the paths in the order of the sequence.
RECURSIVE add_default_handlers(_, _)
add_default_handlers(mm, visit) ==
    IF visit = <<>> THEN mm
    ELSE add_default_handlers(DefaultHandlersForPath(mm, Head(visit)), Tail(visit))

RECURSIVE route_calls(_, _, _)

\* Mutant: the Selection is built with Params::new() instead of the match's params.
route_calls_NoParams(mm, path, method) ==
    LET r == IF method \in DOMAIN mm THEN Recognize(mm[method], path) ELSE NoMatch
    IN  IF r.ok
        THEN [endpoint |-> r.handler, params |-> {}, calls |-> 1]
        ELSE IF method = "HEAD"
        THEN [route_calls(mm, path, "GET") EXCEPT !.calls = @ + 1]
        ELSE [endpoint |-> not_found_endpoint, params |-> {}, calls |-> 1]

\* Mutant: no fallback for HEAD.
route_calls_NoFallback(mm, path, method) ==
    LET r == IF method \in DOMAIN mm THEN Recognize(mm[method], path) ELSE NoMatch
    IN  IF r.ok
        THEN [endpoint |-> r.handler, params |-> r.params, calls |-> 1]
        ELSE [endpoint |-> not_found_endpoint, params |-> {}, calls |-> 1]

\* Mutant: a chain of method aliases, every method but GET retrying with HEAD
\* and HEAD with GET.
route_calls_AliasChain(mm, path, method) ==
    LET r == IF method \in DOMAIN mm THEN Recognize(mm[method], path) ELSE NoMatch
    IN  IF r.ok
        THEN [endpoint |-> r.handler, params |-> r.params, calls |-> 1]
        ELSE IF method # "GET"
        THEN [route_calls(mm, path, IF method = "HEAD" THEN "GET" ELSE "HEAD")
                 EXCEPT !.calls = @ + 1]
        ELSE [endpoint |-> not_found_endpoint, params |-> {}, calls |-> 1]

route_calls(mm, path, method) ==
    LET r == IF method \in DOMAIN mm THEN Recognize(mm[method], path) ELSE NoMatch
    IN  IF r.ok
        THEN [endpoint |-> r.handler, params |-> r.params, calls |-> 1]
        ELSE IF method = "HEAD"
        THEN [route_calls(mm, path, "GET") EXCEPT !.calls = @ + 1]
        ELSE [endpoint |-> not_found_endpoint, params |-> {}, calls |-> 1]

\* The Selection route returns.
route(mm, path, method) ==
    LET s == route_calls(mm, path, method)
    IN  [endpoint |-> s.endpoint, params |-> s.params]

\* ------------------------------------------------------------ transitions
\* The router is used in two phases: the application is set up with add
\* calls, add_default_handlers finalizes the table, and requests are routed
\* from then on.  add and add_default_handlers take &mut self, so neither runs
\* while a Selection, which borrows from the router, is held.

\* No Selection is held.
NoSelection == [endpoint |-> [kind |-> "none", ep |-> 0, status |-> 0, allow |-> <<>>],
                params |-> {}]

\* The orders in which paths.clone().iter() may visit a set of paths.
VisitOrders(S) ==
    { v \in [1..Cardinality(S) -> S] : \A i, j \in DOMAIN v : i # j => v[i] # v[j] }

Init ==
    /\ method_map = <<>>
    /\ paths = {}
    /\ n_adds = 0
    /\ n_finalize = 0
    /\ selection = NoSelection

\* Mutant: the path is recorded only when the method has no matcher yet.
Add_PathOnNewMatcher(path, method) ==
    /\ n_finalize = 0
    /\ n_adds < MaxAdds
    /\ method_map' = MapAdd(method_map, method, path, CallerEndpoint(n_adds + 1))
    /\ paths' = IF method \in DOMAIN method_map THEN paths ELSE paths \cup {path}
    /\ n_adds' = n_adds + 1
    /\ UNCHANGED <<n_finalize, selection>>

\* Router::add, called while the application is set up.
Add(path, method) ==
    /\ n_finalize = 0
    /\ n_adds < MaxAdds
    /\ method_map' = MapAdd(method_map, method, path, CallerEndpoint(n_adds + 1))
    /\ paths' = paths \cup {path}
    /\ n_adds' = n_adds + 1
    /\ UNCHANGED <<n_finalize, selection>>

\* Router::add_default_handlers, visiting the paths in one of the orders the
\* HashSet may iterate in.
AddDefaultHandlers(visit) ==
    /\ n_finalize < MaxFinalize
    /\ selection = NoSelection
    /\ method_map' = add_default_handlers(method_map, visit)
    /\ n_finalize' = n_finalize + 1
    /\ UNCHANGED <<paths, n_adds, selection>>

\* Mutant: the lookup goes through method_map.entry(method).or_insert_with,
\* which creates the matcher of a method that has none.
Route_CreatesMatcher(path, method) ==
    /\ n_finalize > 0
    /\ selection = NoSelection
    /\ selection' = route(method_map, path, method)
    /\ method_map' = [m \in (DOMAIN method_map) \cup {method} |->
                        IF m \in DOMAIN method_map THEN method_map[m] ELSE MethodRouter_new]
    /\ UNCHANGED <<paths, n_adds, n_finalize>>

\* Router::route, called for a request while requests are served; the
\* request holds the Selection, which borrows from the router.
Route(path, method) ==
    /\ n_finalize > 0
    /\ selection = NoSelection
    /\ selection' = route(method_map, path, method)
    /\ UNCHANGED <<method_map, paths, n_adds, n_finalize>>

\* The request is answered and its Selection dropped.
DropSelection ==
    /\ selection # NoSelection
    /\ selection' = NoSelection
    /\ UNCHANGED <<method_map, paths, n_adds, n_finalize>>

Next ==
    \/ \E path \in PathTemplates, method \in CallerMethods : Add(path, method)
    \/ \E visit \in VisitOrders(paths) : AddDefaultHandlers(visit)
    \/ \E path \in RoutePaths, method \in Methods : Route(path, method)
    \/ DropSelection

Spec == Init /\ [][Next]_vars

\* ------------------------------------------------- vocabulary of the claims
\* No Selection is held.  The properties that read the method table alone are
\* stated for these states: every table the router reaches occurs in one.
NoRequestInFlight == selection = NoSelection

\* The registration at index i of the matcher of method m.
Registration(m, i) == method_map[m][i]

IsCaller(e) == e.handler.kind = "caller"
IsDefault(e) == e.handler.kind = "default"

\* The matcher of the method exists and recognises the path.
Recognises(mm, m, path) == m \in DOMAIN mm /\ Recognize(mm[m], path).ok

\* The methods under which the caller registered a handler whose pattern
\* matches the path.
CallerMethodsFor(mm, path) ==
    { m \in DOMAIN mm :
        \E i \in DOMAIN mm[m] : IsCaller(mm[m][i]) /\ Matches(mm[m][i].pattern, path) }

\* Another registration of the same matcher that matches the path and is
\* more specific than registration i.
HasMoreSpecific(m, i, path) ==
    \E j \in DOMAIN method_map[m] :
        /\ Matches(Registration(m, j).pattern, path)
        /\ MoreSpecific(Registration(m, j).pattern, Registration(m, i).pattern)

\* A later registration of the same matcher that matches the path and is as
\* specific as registration i (the same template registered again).
HasLaterEqual(m, i, path) ==
    \E j \in DOMAIN method_map[m] :
        /\ j > i
        /\ Matches(Registration(m, j).pattern, path)
        /\ ~MoreSpecific(Registration(m, i).pattern, Registration(m, j).pattern)
        /\ ~MoreSpecific(Registration(m, j).pattern, Registration(m, i).pattern)

SelectionOf(m, i, path) ==
    [endpoint |-> Registration(m, i).handler,
     params |-> Captures(Registration(m, i).pattern, path)]

\* ---------------------------------------------------------------------- C1
\* C1 as stated: after the add calls and one add_default_handlers, every
\* caller registration (pattern, method, handler) is what route(p, method)
\* returns, with the bindings of the match, for every path p the pattern
\* matches, unless a more specific pattern of the same matcher matches p.
C1_RegisteredIsRouted_AsStated ==
    n_finalize = 1 =>
        \A m \in DOMAIN method_map : \A i \in DOMAIN method_map[m] : \A p \in RoutePaths :
            ( /\ IsCaller(Registration(m, i))
              /\ Matches(Registration(m, i).pattern, p)
              /\ ~HasMoreSpecific(m, i, p) )
            => route(method_map, p, m) = SelectionOf(m, i, p)

\* C1 amended: the same, for the registrations that no later registration of
\* an equally specific pattern (the same template registered again under the
\* same method) supersedes.
C1_RegisteredIsRouted ==
    (NoRequestInFlight /\ n_finalize = 1) =>
        \A m \in DOMAIN method_map : \A i \in DOMAIN method_map[m] : \A p \in RoutePaths :
            ( /\ IsCaller(Registration(m, i))
              /\ Matches(Registration(m, i).pattern, p)
              /\ ~HasMoreSpecific(m, i, p)
              /\ ~HasLaterEqual(m, i, p) )
            => route(method_map, p, m) = SelectionOf(m, i, p)

\* A lookup returned a caller's endpoint registered under a parameter
\* pattern, with its bindings, while another pattern of the matcher matched
\* the path less specifically or the template was registered twice.
C1_Witness ==
    /\ n_finalize = 1
    /\ \E m \in DOMAIN method_map : \E i \in DOMAIN method_map[m] : \E p \in ConcretePaths :
        /\ IsCaller(Registration(m, i))
        /\ Matches(Registration(m, i).pattern, p)
        /\ ~HasMoreSpecific(m, i, p)
        /\ ~HasLaterEqual(m, i, p)
        /\ Len(method_map[m]) > 1
        /\ Captures(Registration(m, i).pattern, p) # {}
        /\ selection = SelectionOf(m, i, p)

\* ---------------------------------------------------------------------- C2
\* C2: after add_default_handlers, for every registered path without a
\* caller OPTIONS handler, route(path, OPTIONS) is a synthetic 204 whose
\* Allow header lists exactly the methods the caller registered a handler
\* for that path under.
C2_OptionsAllowExact ==
    n_finalize = 1 =>
        \A path \in paths :
            "OPTIONS" \notin CallerMethodsFor(method_map, path) =>
                LET s == route(method_map, path, "OPTIONS")
                IN  /\ s.endpoint.kind = "default"
                    /\ s.endpoint.status = StatusNoContent
                    /\ AllowSet(s.endpoint) = CallerMethodsFor(method_map, path)

\* ---------------------------------------------------------------------- C3
\* C3: after add_default_handlers, for every registered path, every standard
\* method other than HEAD and OPTIONS without a caller handler for the path
\* routes to a synthetic 405 whose Allow header carries the same methods as
\* the Allow header of the synthetic 204 that OPTIONS routes to.
C3_NotAllowedSameAllow ==
    n_finalize = 1 =>
        \A path \in paths : \A m \in Methods \ {"HEAD", "OPTIONS"} :
            ( /\ m \notin CallerMethodsFor(method_map, path)
              /\ "OPTIONS" \notin CallerMethodsFor(method_map, path) )
            => LET s == route(method_map, path, m)
                   o == route(method_map, path, "OPTIONS")
               IN  /\ s.endpoint.kind = "default"
                   /\ s.endpoint.status = StatusMethodNotAllowed
                   /\ AllowSet(s.endpoint) = AllowSet(o.endpoint)

\* ---------------------------------------------------------------------- C4
NotFoundSelection == [endpoint |-> not_found_endpoint, params |-> {}]

\* route(path, GET) is a caller's GET registration matching the path, with
\* the bindings of that match.
IsCallerGetSelection(s, path) ==
    /\ "GET" \in DOMAIN method_map
    /\ \E i \in DOMAIN method_map["GET"] :
          /\ IsCaller(Registration("GET", i))
          /\ Matches(Registration("GET", i).pattern, path)
          /\ s = SelectionOf("GET", i, path)

\* C4: in every router state, when the HEAD matcher does not recognise a
\* path, route(path, HEAD) is the Selection route(path, GET) returns: a
\* caller's GET handler with its bindings when the caller registered GET for
\* the path, the synthetic GET 405 when the path is registered without GET
\* and the router is finalized, the not-found handler otherwise.
C4_HeadFallsBackToGet ==
    \A p \in RoutePaths :
        ~Recognises(method_map, "HEAD", p) =>
            LET s == route(method_map, p, "HEAD")
                registered == CallerMethodsFor(method_map, p)
            IN  /\ s = route(method_map, p, "GET")
                /\ IF "GET" \in registered
                   THEN IsCallerGetSelection(s, p)
                   ELSE IF registered # {} /\ n_finalize > 0
                   THEN /\ s.endpoint.kind = "default"
                        /\ s.endpoint.status = StatusMethodNotAllowed
                   ELSE s = NotFoundSelection

\* ---------------------------------------------------------------------- C5
\* The lookup of the method misses: its matcher is absent or does not
\* recognise the path, and for HEAD the same holds of GET.
Misses(mm, p, m) ==
    /\ ~Recognises(mm, m, p)
    /\ m = "HEAD" => ~Recognises(mm, "GET", p)

\* C5: route returns the not-found handler (status 404) with empty bindings
\* exactly when the lookup misses.
C5_NotFoundIffMiss ==
    NoRequestInFlight =>
    \A p \in RoutePaths : \A m \in Methods :
        LET s == route(method_map, p, m)
        IN  /\ Misses(method_map, p, m) => s = NotFoundSelection
            /\ s.endpoint = not_found_endpoint => Misses(method_map, p, m)
            /\ s.endpoint = not_found_endpoint => s.endpoint.status = 404 /\ s.params = {}

\* A lookup on a finalized router with registered paths returned not-found.
C5_Witness ==
    /\ n_finalize > 0
    /\ paths # {}
    /\ selection = NotFoundSelection
    /\ \E p \in ConcretePaths : Misses(method_map, p, "HEAD") /\ Misses(method_map, p, "POST")

\* ---------------------------------------------------------------------- C6
\* mm2 extends mm by synthetic registrations only, each for a registered
\* path that the registrations before it in its matcher do not recognise.
IsEnrichment(mm, mm2) ==
    /\ DOMAIN mm \subseteq DOMAIN mm2
    /\ \A m \in DOMAIN mm :
          /\ Len(mm[m]) <= Len(mm2[m])
          /\ SubSeq(mm2[m], 1, Len(mm[m])) = mm[m]
    /\ \A m \in DOMAIN mm2 :
          \A k \in DOMAIN mm2[m] :
              k > (IF m \in DOMAIN mm THEN Len(mm[m]) ELSE 0) =>
                  /\ IsDefault(mm2[m][k])
                  /\ mm2[m][k].pattern \in paths
                  /\ ~Recognize(SubSeq(mm2[m], 1, k - 1), mm2[m][k].pattern).ok
                  /\ \A i \in 1..(k - 1) : mm2[m][i].pattern # mm2[m][k].pattern

\* C6: add_default_handlers only adds: every registration made before it is
\* still there with its handler, and each synthetic handler is registered
\* under a (path, method) whose matcher did not recognise the path when it
\* was added, so no caller handler is overwritten.
C6_PureEnrichment ==
    [][n_finalize' = n_finalize + 1 => IsEnrichment(method_map, method_map')]_vars

\* A finalized router holding a caller's OPTIONS handler beside synthetic
\* handlers of other methods.
C6_Witness ==
    /\ n_finalize = 1
    /\ "OPTIONS" \in DOMAIN method_map
    /\ \E i \in DOMAIN method_map["OPTIONS"] : IsCaller(Registration("OPTIONS", i))
    /\ \E m \in DOMAIN method_map : \E i \in DOMAIN method_map[m] : IsDefault(Registration(m, i))

\* ---------------------------------------------------------------------- C7
\* C7: every lookup ends with a Selection (a caller's, a synthetic or the
\* not-found endpoint, with bindings), after at most one retry, which only
\* HEAD takes.
C7_RouteBounded ==
    NoRequestInFlight =>
    \A p \in RoutePaths : \A m \in Methods :
        LET s == route_calls(method_map, p, m)
        IN  /\ s.calls \in {1, 2}
            /\ s.calls = 2 => m = "HEAD"
            /\ s.endpoint.kind \in {"caller", "default", "not_found"}
            /\ \A b \in s.params : b[1] \in {"x", "y", "w"} /\ Len(b[2]) >= 1
            /\ route(method_map, p, m) = [endpoint |-> s.endpoint, params |-> s.params]

\* A HEAD lookup was answered through the retry with GET.
C7_Witness ==
    /\ n_finalize > 0
    /\ \E p \in ConcretePaths :
          /\ route_calls(method_map, p, "HEAD").calls = 2
          /\ selection = route(method_map, p, "HEAD")
          /\ selection.endpoint.kind = "caller"

LiteralBeforeDynamic(p, q) ==
    \E k \in 1..Len(p) :
        /\ k <= Len(q)
        /\ p[k] # q[k]
        /\ \A j \in 1..(k - 1) : p[j] = q[j]
        /\ ~IsDynamic(p[k]) /\ ~IsStar(p[k])
        /\ IsDynamic(q[k])

\* C9: when two registrations of one matcher match a path, and the first is
\* literal where the second has a parameter at the first position they
\* differ in, route does not return the second with its bindings, whichever
\* was added first; it returns the first when no third registration matches
\* the path.
C9_LiteralBeatsDynamic ==
    NoRequestInFlight =>
    \A m \in DOMAIN method_map : \A i, j \in DOMAIN method_map[m] : \A p \in RoutePaths :
        ( /\ Matches(Registration(m, i).pattern, p)
          /\ Matches(Registration(m, j).pattern, p)
          /\ LiteralBeforeDynamic(Registration(m, i).pattern, Registration(m, j).pattern) )
        => /\ route(method_map, p, m) # SelectionOf(m, j, p)
           /\ (\A k \in DOMAIN method_map[m] :
                  Matches(Registration(m, k).pattern, p) => k \in {i, j})
              => route(method_map, p, m) = SelectionOf(m, i, p)

\* /a/b was looked up with /a/:x registered before /a/b under the method,
\* and the lookup returned the handler of /a/b.
C9_Witness ==
    \E m \in DOMAIN method_map : \E i, j \in DOMAIN method_map[m] :
        /\ j < i
        /\ Registration(m, i).pattern = <<"a", "b">>
        /\ Registration(m, j).pattern = <<"a", ":x">>
        /\ IsCaller(Registration(m, i)) /\ IsCaller(Registration(m, j))
        /\ selection = SelectionOf(m, i, <<"a", "b">>)

\* --------------------------------------------------------------------- C10
\* The HEAD matcher: whether it exists, and its registrations.
HeadMatcher(mm) ==
    [exists |-> "HEAD" \in DOMAIN mm,
     routes |-> IF "HEAD" \in DOMAIN mm THEN mm["HEAD"] ELSE <<>>]

\* C10: add_default_handlers leaves the HEAD matcher as it was, and the HEAD
\* matcher never holds a synthetic handler.
C10_HeadUntouched ==
    [][/\ n_finalize' = n_finalize + 1 => HeadMatcher(method_map') = HeadMatcher(method_map)
       /\ \A i \in DOMAIN HeadMatcher(method_map').routes :
             IsCaller(HeadMatcher(method_map').routes[i])]_vars

\* A finalized router without HEAD matcher in which the other methods hold
\* synthetic handlers, and a HEAD lookup got GET's synthetic 405.
C10_Witness ==
    /\ n_finalize > 0
    /\ ~HeadMatcher(method_map).exists
    /\ "GET" \in DOMAIN method_map
    /\ \E p \in paths :
          /\ selection = route(method_map, p, "HEAD")
          /\ selection.endpoint.kind = "default"
          /\ selection.endpoint.status = StatusMethodNotAllowed
          /\ \A i \in DOMAIN method_map["GET"] : IsDefault(Registration("GET", i))

\* --------------------------------------------------------------------- C11
\* The caller's registrations <<method, index>>, and their templates.
CallerRegistrationsOf(mm) ==
    UNION { { <<m, i>> : i \in { i \in DOMAIN mm[m] : IsCaller(mm[m][i]) } } : m \in DOMAIN mm }

CallerTemplates(mm) == { mm[r[1]][r[2]].pattern : r \in CallerRegistrationsOf(mm) }

\* The number of the caller's registrations.
CallerRegistrations(mm) == Cardinality(CallerRegistrationsOf(mm))

\* C11: the path set is exactly the set of the templates passed to add so
\* far, a template counted once however often and under whichever methods it
\* was passed; add_default_handlers, whose synthetic registrations are not
\* the caller's, leaves it so.
C11_PathsAreAddedTemplates ==
    /\ paths = CallerTemplates(method_map)
    /\ CallerRegistrations(method_map) = n_adds
    /\ Cardinality(paths) <= n_adds

\* One template was added twice, under two methods, and the router finalized:
\* the path set holds it once, beside the synthetic registrations.
C11_Witness ==
    /\ n_finalize = 1
    /\ n_adds = 2
    /\ Cardinality(paths) = 1
    /\ Cardinality(DOMAIN method_map) > 2

\* --------------------------------------------------------------------- C12
\* C12: after add_default_handlers, for every registered path and every
\* standard method, route does not return the not-found handler: it returns a
\* caller's handler, a synthetic 204 (for OPTIONS only) or a synthetic 405
\* (never for OPTIONS); HEAD is answered through GET when its own matcher
\* does not recognise the path.
C12_RegisteredPathsCovered ==
    (NoRequestInFlight /\ n_finalize > 0) =>
        \A path \in paths : \A m \in Methods :
            LET s == route(method_map, path, m)
            IN  /\ s.endpoint # not_found_endpoint
                /\ \/ s.endpoint.kind = "caller"
                   \/ /\ s.endpoint.kind = "default"
                      /\ s.endpoint.status = StatusNoContent
                      /\ m = "OPTIONS"
                   \/ /\ s.endpoint.kind = "default"
                      /\ s.endpoint.status = StatusMethodNotAllowed
                      /\ m # "OPTIONS"
                /\ (m = "HEAD" /\ ~Recognises(method_map, "HEAD", path))
                      => /\ Recognises(method_map, "GET", path)
                         /\ s = route(method_map, path, "GET")

\* A registered template was looked up under HEAD, which has no matcher, and
\* under a method the caller never used; both lookups find synthetic 405s.
C12_Witness ==
    /\ n_finalize > 0
    /\ "HEAD" \notin DOMAIN method_map
    /\ \E path \in paths :
          /\ "GET" \notin CallerMethodsFor(method_map, path)
          /\ route(method_map, path, "TRACE").endpoint.status = StatusMethodNotAllowed
          /\ selection = route(method_map, path, "HEAD")
          /\ selection.endpoint.status = StatusMethodNotAllowed
          /\ route(method_map, path, "OPTIONS").endpoint.status = StatusNoContent

\* --------------------------------------------------------------------- C13
\* The methods whose matcher recognises the path.
RecognisedMethods(mm, path) == { m \in Methods : Recognises(mm, m, path) }

\* The registrations <<method, index>> of mm2 that mm does not hold.
AddedRegistrations(mm, mm2) ==
    UNION { { <<m, k>> : k \in { k \in DOMAIN mm2[m] :
                                  k > (IF m \in DOMAIN mm THEN Len(mm[m]) ELSE 0) } }
            : m \in DOMAIN mm2 }

\* The step of add_default_handlers for the path, on the table mm: the 204
\* it registers lists the methods recognised at its start, each 405 those
\* methods and OPTIONS.
StepAllowHeaders(mm, path) ==
    LET start == RecognisedMethods(mm, path)
        mm2 == DefaultHandlersForPath(mm, path)
        added == AddedRegistrations(mm, mm2)
    IN  /\ \A r \in added :
              LET e == mm2[r[1]][r[2]]
              IN  /\ e.pattern = path
                  /\ IsDefault(e)
                  /\ IF r[1] = "OPTIONS"
                     THEN /\ e.handler.status = StatusNoContent
                          /\ AllowSet(e.handler) = start
                          /\ "OPTIONS" \notin AllowSet(e.handler)
                     ELSE /\ e.handler.status = StatusMethodNotAllowed
                          /\ AllowSet(e.handler) = start \cup {"OPTIONS"}
        /\ ("OPTIONS" \notin start) = (\E r \in added : r[1] = "OPTIONS")

\* The synthetic registrations <<method, index>> of the template.
DefaultRegistrationsOf(mm, path) ==
    UNION { { <<m, k>> : k \in { k \in DOMAIN mm[m] :
                                  IsDefault(mm[m][k]) /\ mm[m][k].pattern = path } }
            : m \in DOMAIN mm }

\* C13: in every step of add_default_handlers, whatever the order the paths
\* are visited in, the synthetic 204 of a path lists the methods recognised
\* for the path at the start of the step, without OPTIONS, and every
\* synthetic 405 of the path lists those methods together with OPTIONS; in
\* the finalized table the 405s of a template carry the Allow set of its 204
\* and OPTIONS.
C13_OptionsJoinsBefore405 ==
    /\ n_finalize = 0 =>
          \A visit \in VisitOrders(paths) : \A k \in DOMAIN visit :
              StepAllowHeaders(add_default_handlers(method_map, SubSeq(visit, 1, k - 1)),
                               visit[k])
    /\ (NoRequestInFlight /\ n_finalize > 0) =>
          \A path \in paths :
              \A r \in DefaultRegistrationsOf(method_map, path) :
                  LET h == Registration(r[1], r[2]).handler
                  IN  IF h.status = StatusNoContent
                      THEN "OPTIONS" \notin AllowSet(h)
                      ELSE /\ "OPTIONS" \in AllowSet(h)
                           /\ \A o \in DefaultRegistrationsOf(method_map, path) :
                                 o[1] = "OPTIONS" =>
                                     AllowSet(h) = AllowSet(Registration(o[1], o[2]).handler)
                                                       \cup {"OPTIONS"}

\* A template registered under GET and POST was finalized: its 204 lists
\* GET and POST, and a lookup returned its 405, which lists OPTIONS as well.
C13_Witness ==
    /\ n_finalize = 1
    /\ \E path \in paths :
          /\ CallerMethodsFor(method_map, path) = {"GET", "POST"}
          /\ \E o \in DefaultRegistrationsOf(method_map, path) :
                /\ o[1] = "OPTIONS"
                /\ AllowSet(Registration(o[1], o[2]).handler) = {"GET", "POST"}
          /\ \E r \in DefaultRegistrationsOf(method_map, path) :
                /\ r[1] = "PUT"
                /\ AllowSet(Registration(r[1], r[2]).handler) = {"GET", "POST", "OPTIONS"}
                /\ selection = SelectionOf(r[1], r[2], path)

\* --------------------------------------------------------------------- C14
\* C14: add_default_handlers preserves the caller's routing: a lookup of a
\* concrete path that returned a caller handler before the call returns the
\* same handler with the same parameters after it.
C14_CallerRoutingPreserved ==
    [][ (n_finalize' = n_finalize + 1) =>
            \A c \in ConcretePaths : \A m \in Methods :
                LET before == route(method_map, c, m)
                IN  before.endpoint.kind = "caller" =>
                        route(method_map', c, m) = before ]_vars

\* --------------------------------------------------------------------- C15
\* The route results of a finalized table, for every path and method, with
\* the synthetic handlers' Allow headers read as method sets.
RouteResults(mm) ==
    [ q \in RoutePaths \X Methods |->
        LET s == route(mm, q[1], q[2])
        IN  [ kind |-> s.endpoint.kind, ep |-> s.endpoint.ep,
              status |-> s.endpoint.status, allow |-> AllowSet(s.endpoint),
              params |-> s.params ] ]

\* C15: the route results of the finalized table do not depend on the order
\* in which add_default_handlers visits the paths of the path set.
C15_VisitOrderIrrelevant ==
    n_finalize = 0 =>
        \A v1, v2 \in VisitOrders(paths) :
            RouteResults(add_default_handlers(method_map, v1))
                = RouteResults(add_default_handlers(method_map, v2))

\* --------------------------------------------------------------------- C16
\* C16: a call of add_default_handlers leaves every path of the path set
\* recognised by the matcher of every standard method except HEAD, and a
\* further call, whatever its visit order, registers nothing: the method
\* table and so every route result are unchanged.
C16_FinalizeIdempotent ==
    [][ (n_finalize' = n_finalize + 1) =>
            /\ \A path \in paths' : \A m \in Methods \ {"HEAD"} :
                  Recognises(method_map', m, path)
            /\ n_finalize >= 1 =>
                  /\ method_map' = method_map
                  /\ \A path \in paths :
                        get_http_methods_with_handlers(method_map, path)
                            \in { Methods, Methods \ {"HEAD"} } ]_vars

\* add_default_handlers ran twice on a table with two templates, and a
\* lookup returned one of the synthetic 405 handlers of the first run.
C16_Witness ==
    /\ n_finalize = 2
    /\ Cardinality(paths) = 2
    /\ selection.endpoint.kind = "default"
    /\ selection.endpoint.status = StatusMethodNotAllowed
    /\ \A path \in paths : DefaultRegistrationsOf(method_map, path) # {}

\* --------------------------------------------------------------------- C17
\* The matcher of the method in the table, the empty one if it has none.
MatcherOf(mm, m) == IF m \in DOMAIN mm THEN mm[m] ELSE <<>>

\* C17: matchers are created lazily and per method.  A router without
\* registrations has an empty method table and an empty path set, also after
\* add_default_handlers; a matcher of the table holds at least one
\* registration; and a call of add creates or extends the matcher of its
\* method alone, by the caller's registration, leaving every other matcher
\* as it was.
C17_LazyMatchers ==
    [][ /\ n_adds = 0 => (method_map = <<>> /\ paths = {})
        /\ n_adds' = 0 => (method_map' = <<>> /\ paths' = {})
        /\ \A m \in DOMAIN method_map' : Len(method_map'[m]) >= 1
        /\ n_adds' = n_adds + 1 =>
              \E m \in CallerMethods :
                  /\ DOMAIN method_map' = DOMAIN method_map \cup {m}
                  /\ \A o \in DOMAIN method_map \ {m} : method_map'[o] = method_map[o]
                  /\ Len(method_map'[m]) = Len(MatcherOf(method_map, m)) + 1
                  /\ SubSeq(method_map'[m], 1, Len(method_map'[m]) - 1)
                         = MatcherOf(method_map, m)
                  /\ method_map'[m][Len(method_map'[m])].handler
                         = CallerEndpoint(n_adds') ]_vars

\* Two calls of add under GET and POST created exactly those two matchers,
\* one registration each, and add_default_handlers has not run.
C17_Witness ==
    /\ n_finalize = 0
    /\ n_adds = 2
    /\ DOMAIN method_map = {"GET", "POST"}
    /\ Len(method_map["GET"]) = 1
    /\ Len(method_map["POST"]) = 1
    /\ Cardinality(paths) = 2

====
